---- MODULE Spec2Model ----
(***************************************************************************)
(* hono-event-emitter: the emitter built by createEmitter                  *)
(* (src/dist/index.mjs).  The registry is a Map from event key to an array *)
(* object; arrays are modelled as heap objects with identity because on    *)
(* pushes in place, off replaces the array by a filtered copy, and the     *)
(* Map built at construction holds the caller's own arrays.                *)
(***************************************************************************)
EXTENDS Integers, Sequences, FiniteSets, TLC

\* ------------------------------------------------------------------ values
StringKeys == {"a", "b"}
SymbolKeys == {"sym"}
Keys == StringKeys \cup SymbolKeys

Functions == {"h1", "h2", "h3"}
Undefined == "undefined"
NotAFunction == "not a function"
Values == Functions \cup {Undefined, NotAFunction}

Emitters == {"e1", "e2"}

\* largest options.maxHandlers tried (the smallest is -1)
MaxLimit == 2
\* longest handler array in the caller's initial eventHandlers object
MaxInitLen == 2

\* options.maxHandlers: <<>> is "not given", <<n>> is the number n
NoOption == <<>>
OptionValues == {NoOption} \cup {<<n>> : n \in -1..MaxLimit}

\* ----------------------------------------------------------- JS primitives
typeofMutantNoCheck(v) == "function"
typeof(v) ==
  IF v \in Functions THEN "function"
  ELSE IF v = Undefined THEN "undefined" ELSE "string"

\* !handler
Falsy(v) == v = Undefined

RECURSIVE Count(_, _)
Count(v, s) ==
  IF s = <<>> THEN 0
  ELSE (IF Head(s) = v THEN 1 ELSE 0) + Count(v, Tail(s))

\* Array.prototype.includes
includesMutantNever(handlerArray, handler) == FALSE
includes(handlerArray, handler) ==
  \E i \in 1..Len(handlerArray) : handlerArray[i] = handler

\* Array.prototype.push (in place: the caller stores the result in the same object)
pushMutantPrepends(handlerArray, handler) == <<handler>> \o handlerArray
push(handlerArray, handler) == Append(handlerArray, handler)

\* handlerArray.filter((h) => h !== handler): a new array
filterMutantInverted(handlerArray, handler) ==
  SelectSeq(handlerArray, LAMBDA h : h = handler)
filterMutantDropsTail(handlerArray, handler) ==
  IF includes(handlerArray, handler)
    THEN SubSeq(handlerArray, 1,
                (CHOOSE i \in 1..Len(handlerArray) :
                   /\ handlerArray[i] = handler
                   /\ \A j \in 1..(i - 1) : handlerArray[j] # handler) - 1)
    ELSE handlerArray
filterMutantKeepsAll(handlerArray, handler) == handlerArray
filter(handlerArray, handler) == SelectSeq(handlerArray, LAMBDA h : h # handler)

\* Map.prototype.has / get / set / delete on a Map modelled as a function
has(map, key) == key \in DOMAIN map
set(map, key, ref) == [k \in DOMAIN map \cup {key} |-> IF k = key THEN ref ELSE map[k]]
deleteMutantKeeps(map, key) == map
deleteMutantClears(map, key) == [k \in {} |-> 0]
delete(map, key) == [k \in DOMAIN map \ {key} |-> map[k]]
EmptyMap == [k \in {} |-> 0]

\* const limit = options?.maxHandlers ?? 10
DefaultMaxHandlers == 10
limitMutantIgnoresOption(opt) == DefaultMaxHandlers
Limit(opt) == IF opt = NoOption THEN DefaultMaxHandlers ELSE opt[1]

\* handlerArray.length >= limit
limitReachedMutantOffByOne(handlerArray, limit) == Len(handlerArray) > limit
LimitReached(handlerArray, limit) == Len(handlerArray) >= limit

\* ------------------------------------------------------------------- state
VARIABLES
  eventHandlers,  \* the caller's eventHandlers argument: <<>> (undefined) or <<key -> array reference>>
  arrays,         \* the heap of array objects: reference -> sequence of handlers
  created,        \* created[e]: createEmitter has returned emitter e
  options,        \* options[e]: the maxHandlers option e was created with
  handlers,       \* handlers[e]: e's Map, key -> array reference
  initial,        \* initial[e]: the lists e's Map held when it was created
  twice,          \* history: twice[e] holds <<key, handler>> when on found handler subscribed already
  unsubscribed,   \* history: unsubscribed[e] holds the <<key, handler>> of the off calls still in effect
  subscribed,     \* history: subscribed[e][key] holds the handlers on has added and off has not removed, in the order of the on calls that added them
  removed,        \* history: removed[e][key] holds the last off call that took handlers out of key's list, the list it found and the list it left
  thrown,         \* history: thrown[s] holds the positions of the handlers that threw synchronously in the last call of slot s
  instance,       \* the emitter the middleware made by emitter(...) holds ("none" before that call)
  context,        \* context[r]: what the context of request r holds under 'emitter'
  clock,          \* the time since the emitAsync in flight was called, and what each of its handlers takes
  emissions,      \* emissions[s]: the emit / emitAsync call in flight in slot s
  result          \* the last call that ended and how it ended

history == <<twice, unsubscribed, subscribed, removed, thrown>>

\* the middleware and its request contexts
hono == <<instance, context>>

\* what the calls on an emitter leave alone
aside == <<history, hono, clock>>

vars == <<eventHandlers, arrays, created, options, handlers, initial, emissions, result,
          twice, unsubscribed, subscribed, removed, thrown, instance, context, clock>>

Requests == {1, 2}

\* the context of a request the middleware has not run for: where the request is,
\* what c.get("emitter") gives, and what the request has subscribed
NoContext == [at |-> "start", emitter |-> "none", added |-> {}]

\* no emitAsync is being timed
NoClock == [elapsed |-> 0, took |-> <<>>, durations |-> <<>>, due |-> <<>>]

Slots == {1, 2}

\* references that are reachable from the program
Live(eh, hs, ems) ==
  (IF eh = <<>> THEN {} ELSE {eh[1][k] : k \in DOMAIN eh[1]}) \cup
  UNION {{hs[e][k] : k \in DOMAIN hs[e]} : e \in Emitters} \cup
  {ems[s].arr : s \in {t \in Slots : ems[t].st # "idle"}}

\* the heap without the unreachable arrays
collectMutantEmpties(arrs, eh, hs, ems) ==
  [r \in DOMAIN arrs \cap Live(eh, hs, ems) |-> <<>>]
Collect(arrs, eh, hs, ems) ==
  [r \in DOMAIN arrs \cap Live(eh, hs, ems) |-> arrs[r]]

\* the reference a new array gets: the smallest one not in use
NewRef(used) == CHOOSE r \in 1..(Cardinality(used) + 1) :
                  r \notin used /\ \A q \in 1..(r - 1) : q \in used

\* handlers.get(key) as a sequence; an absent key reads as no handlers
HandlerList(e, key) ==
  IF has(handlers[e], key) THEN arrays[handlers[e][key]] ELSE <<>>

\* errors: what a call threw or rejected with
NoError == [aggregate |-> FALSE, errors |-> <<>>, message |-> <<>>]
\* the error thrown by handler h itself, or the reason its promise rejected with, unwrapped
handlerErrorMutantAggregate(h) == [aggregate |-> TRUE, errors |-> <<h>>, message |-> <<>>]
HandlerError(h) == [aggregate |-> FALSE, errors |-> <<h>>, message |-> <<>>]
\* `${errors.length} handler(s) for event ${String(key)} encountered errors`
Message(n, key) == <<n, key>>
\* new AggregateError(errors, message)
AggregateError(errors, message) == [aggregate |-> TRUE, errors |-> errors, message |-> message]

\* how a call ended; an emission adds its mode, the invocations it made, what each
\* of them gave, and the positions of those that failed in the order they failed
Outcome(op, e, key, handler, how) ==
  [op |-> op, e |-> e, key |-> key, handler |-> handler, outcome |-> how,
   error |-> NoError, calls |-> <<>>, mode |-> "none", promises |-> <<>>,
   failed |-> <<>>]

Idle == [st |-> "idle", kind |-> "emit", e |-> "e1", key |-> "a", c |-> "c1",
         payload |-> "p1", mode |-> "concurrent", arr |-> 0, len |-> 0, idx |-> 0,
         calls |-> <<>>, promises |-> <<>>, failed |-> <<>>, list |-> <<>>]

\* no emit or emitAsync call is in flight
Quiet == \A s \in Slots : emissions[s].st = "idle"

\* ------------------------------------------------------------ construction
KeyOrder == <<"a", "b", "sym">>
KeyRef(key) == CHOOSE i \in 1..Len(KeyOrder) : KeyOrder[i] = key

InitLists == {l \in UNION {[1..n -> {"h1", "h2"}] : n \in 0..MaxInitLen} :
                l = <<>> \/ l[1] = "h1"}
\* the eventHandlers arguments tried: undefined, or an object with a list under key "a"
InitialMappings == {<<>>} \cup {<<[k \in {"a"} |-> l]>> : l \in InitLists}

\* the state before any call, the caller holding the eventHandlers object m
InitWith(m) ==
    /\ eventHandlers = IF m = <<>> THEN <<>> ELSE <<[k \in DOMAIN m[1] |-> KeyRef(k)]>>
    /\ arrays = IF m = <<>> THEN EmptyMap
                ELSE [r \in {KeyRef(k) : k \in DOMAIN m[1]} |->
                        m[1][CHOOSE k \in DOMAIN m[1] : KeyRef(k) = r]]
    /\ created = [e \in Emitters |-> FALSE]
    /\ options = [e \in Emitters |-> NoOption]
    /\ handlers = [e \in Emitters |-> EmptyMap]
    /\ initial = [e \in Emitters |-> EmptyMap]
    /\ twice = [e \in Emitters |-> {}]
    /\ unsubscribed = [e \in Emitters |-> {}]
    /\ subscribed = [e \in Emitters |-> [k \in Keys |-> <<>>]]
    /\ removed = [e \in Emitters |-> [k \in Keys |-> <<>>]]
    /\ thrown = [s \in Slots |-> {}]
    /\ instance = "none"
    /\ context = [r \in Requests |-> NoContext]
    /\ clock = NoClock
    /\ emissions = [s \in Slots |-> Idle]
    /\ result = Outcome("none", "e1", "a", Undefined, "ok")

Init == \E m \in InitialMappings : InitWith(m)

\* Object.entries(eventHandlers): the string-keyed properties only
ObjectEntries(eh) == [k \in DOMAIN eh \cap StringKeys |-> eh[k]]

\* createEmitter(eventHandlers, options)
createEmitter(e, opt) ==
  /\ ~created[e]
  /\ LET map == IF eventHandlers # <<>> THEN ObjectEntries(eventHandlers[1]) ELSE EmptyMap
     IN /\ handlers' = [handlers EXCEPT ![e] = map]
        /\ initial' = [initial EXCEPT ![e] = [k \in DOMAIN map |-> arrays[map[k]]]]
  /\ created' = [created EXCEPT ![e] = TRUE]
  /\ options' = [options EXCEPT ![e] = opt]
  /\ result' = Outcome("createEmitter", e, "a", Undefined, "ok")
  /\ UNCHANGED <<eventHandlers, arrays, emissions>>

\* ---------------------------------------------------------------------- on
on(e, key, handler) ==
  /\ created[e]
  /\ IF typeof(handler) # "function"
     THEN /\ result' = Outcome("on", e, key, handler, "TypeError")
          /\ UNCHANGED <<eventHandlers, arrays, created, options, handlers, initial,
                         emissions>>
     ELSE LET fresh == ~has(handlers[e], key)
              ref == IF fresh THEN NewRef(DOMAIN arrays) ELSE handlers[e][key]
              map == IF fresh THEN set(handlers[e], key, ref) ELSE handlers[e]
              heap == IF fresh THEN (ref :> <<>>) @@ arrays ELSE arrays
              handlerArray == heap[ref]
              limit == Limit(options[e])
          IN /\ handlers' = [handlers EXCEPT ![e] = map]
             /\ IF LimitReached(handlerArray, limit)
                THEN /\ arrays' = heap
                     /\ result' = Outcome("on", e, key, handler, "RangeError")
                ELSE /\ arrays' = IF ~includes(handlerArray, handler)
                                  THEN [heap EXCEPT ![ref] = push(handlerArray, handler)]
                                  ELSE heap
                     /\ result' = Outcome("on", e, key, handler, "ok")
             /\ UNCHANGED <<eventHandlers, created, options, initial, emissions>>

\* --------------------------------------------------------------------- off
off(e, key, handler) ==
  /\ created[e]
  /\ IF Falsy(handler)
     THEN /\ handlers' = [handlers EXCEPT ![e] = delete(@, key)]
          /\ arrays' = Collect(arrays, eventHandlers, handlers', emissions)
     ELSE IF has(handlers[e], key)
     THEN LET handlerArray == arrays[handlers[e][key]]
              kept == Live(eventHandlers, [handlers EXCEPT ![e] = delete(@, key)], emissions)
              ref == NewRef(kept)
          IN /\ handlers' = [handlers EXCEPT ![e] = set(@, key, ref)]
             /\ arrays' = Collect((ref :> filter(handlerArray, handler)) @@
                                    [r \in DOMAIN arrays \ {ref} |-> arrays[r]],
                                  eventHandlers, handlers', emissions)
     ELSE UNCHANGED <<handlers, arrays>>
  /\ result' = Outcome("off", e, key, handler, "ok")
  /\ UNCHANGED <<eventHandlers, created, options, initial, emissions>>

\* ------------------------------------------------------------- emissions
\* handler(c, payload): one invocation, as the handler saw it
callMutantSwapsArguments(handler, c, payload) == <<handler, payload, c>>
Call(handler, c, payload) == <<handler, c, payload>>

\* the handlers a sequence of invocations went to
Invoked(calls) == [i \in 1..Len(calls) |-> calls[i][1]]

\* what the synchronous part of a handler invocation may do: return a plain value,
\* throw, return a promise that is still pending, or return a promise that is
\* rejected already (an async function that throws)
HandlerEnds == {"returns", "throws", "promise", "rejects"}

\* what the invocation gave its caller
Given(how) ==
  CASE how = "returns" -> "fulfilled"
    [] how = "throws" -> "threw"
    [] how = "rejects" -> "rejected"
    [] OTHER -> "pending"

\* the promise of async (handler) => { await handler(c, payload) }
wrappedMutantLetsThrow(given) == given
Wrapped(given) == IF given = "threw" THEN "rejected" ELSE given

\* the record em with what the invocation it was running gave
Gave(em, given) ==
  [em EXCEPT !.promises = Append(@, given),
             !.failed = IF given \in {"threw", "rejected"} THEN Append(@, em.idx) ELSE @]

\* the record em with its i-th promise settled
Settled(em, i, how) ==
  [em EXCEPT !.promises[i] = how,
             !.failed = IF how = "rejected" THEN Append(@, i) ELSE @]

\* the statement handler(c, payload) throws: the handler threw synchronously
throwsMutantNever(how) == FALSE
throwsMutantAlsoRejected(how) == how \in {"throws", "rejects"}
Throws(how) == how = "throws"

\* a synchronous call (a handler's body, or emit's loop) is running in some slot
Calling == \E s \in Slots : emissions[s].st = "calling"

\* the call in slot s has ended as em: its record is dropped and its outcome published
Finish(s, em, how, error) ==
  /\ emissions' = [emissions EXCEPT ![s] = Idle]
  /\ result' = [op |-> em.kind, e |-> em.e, key |-> em.key, handler |-> Undefined,
                outcome |-> how, error |-> error, calls |-> em.calls,
                mode |-> em.mode, promises |-> em.promises, failed |-> em.failed]
  /\ arrays' = Collect(arrays, eventHandlers, handlers, emissions')

\* the loop of slot s, being at em, invokes the handler at position idx + 1 of its array
InvokeNext(s, em) ==
  /\ emissions' = [emissions EXCEPT ![s] =
       [em EXCEPT !.st = "calling", !.idx = em.idx + 1,
                  !.calls = Append(em.calls,
                                   Call(arrays[em.arr][em.idx + 1], em.c, em.payload))]]
  /\ UNCHANGED <<arrays, result>>

\* slot s, being at em, suspends at its await
Await(s, em) ==
  /\ emissions' = [emissions EXCEPT ![s] = [em EXCEPT !.st = "awaiting"]]
  /\ UNCHANGED <<arrays, result>>

\* a call that finds no array under key, or an empty one, ends at once
endsAtOnceMutantThrows(kind, e, key, mode, how) ==
  /\ result' = [op |-> kind, e |-> e, key |-> key, handler |-> Undefined,
                outcome |-> "threw", error |-> NoError, calls |-> <<>>,
                mode |-> mode, promises |-> <<>>, failed |-> <<>>]
  /\ UNCHANGED <<emissions, arrays>>
EndsAtOnce(kind, e, key, mode, how) ==
  /\ result' = [op |-> kind, e |-> e, key |-> key, handler |-> Undefined,
                outcome |-> how, error |-> NoError, calls |-> <<>>,
                mode |-> mode, promises |-> <<>>, failed |-> <<>>]
  /\ UNCHANGED <<emissions, arrays>>

\* the record of a call that has found the array ref under key; list is the array as
\* the call found it
Started(kind, e, key, c, payload, mode, ref, len, st, calls) ==
  [st |-> st, kind |-> kind, e |-> e, key |-> key, c |-> c, payload |-> payload,
   mode |-> mode, arr |-> ref, len |-> len, idx |-> Len(calls), calls |-> calls,
   promises |-> <<>>, failed |-> <<>>, list |-> arrays[ref]]

\* emit(key, c, payload) up to its first handler invocation
emit(s, e, key, c, payload) ==
  /\ created[e] /\ emissions[s].st = "idle" /\ ~Calling
  /\ IF has(handlers[e], key) /\ arrays[handlers[e][key]] # <<>>
     THEN LET ref == handlers[e][key]
          IN /\ emissions' = [emissions EXCEPT ![s] =
                  Started("emit", e, key, c, payload, "none", ref, 0, "calling",
                          <<Call(arrays[ref][1], c, payload)>>)]
             /\ result' = Outcome("emit", e, key, Undefined, "running")
             /\ UNCHANGED arrays
     ELSE EndsAtOnce("emit", e, key, "none", "returned")
  /\ UNCHANGED <<eventHandlers, created, options, handlers, initial>>

\* options2 = { mode: "concurrent" } when the argument is omitted (<<>>)
modeMutantDefaultSequencial(opts) == IF opts = <<>> THEN "sequencial" ELSE opts[1]
Mode(opts) == IF opts = <<>> THEN "concurrent" ELSE opts[1]

\* options2.mode === "sequencial"
sequencialMutantAlways(mode) == TRUE
sequencialMutantNever(mode) == FALSE
Sequencial(mode) == mode = "sequencial"

\* emitAsync(key, c, payload, options2) up to its first handler invocation or await
emitAsync(s, e, key, c, payload, opts) ==
  /\ created[e] /\ emissions[s].st = "idle" /\ ~Calling
  /\ IF has(handlers[e], key)
     THEN LET ref == handlers[e][key]
              handlerArray == arrays[ref]
              first == IF handlerArray = <<>> THEN <<>>
                       ELSE <<Call(handlerArray[1], c, payload)>>
          IN IF Sequencial(Mode(opts))
             THEN IF handlerArray # <<>>
                  THEN /\ emissions' = [emissions EXCEPT ![s] =
                            Started("emitAsync", e, key, c, payload, Mode(opts), ref, 0,
                                    "calling", first)]
                       /\ result' = Outcome("emitAsync", e, key, Undefined, "pending")
                       /\ UNCHANGED arrays
                  ELSE EndsAtOnce("emitAsync", e, key, Mode(opts), "resolved")
             ELSE /\ emissions' = [emissions EXCEPT ![s] =
                       Started("emitAsync", e, key, c, payload, Mode(opts), ref,
                               Len(handlerArray),
                               IF handlerArray = <<>> THEN "awaiting" ELSE "calling", first)]
                  /\ result' = Outcome("emitAsync", e, key, Undefined, "pending")
                  /\ UNCHANGED arrays
     ELSE EndsAtOnce("emitAsync", e, key, Mode(opts), "resolved")
  /\ UNCHANGED <<eventHandlers, created, options, handlers, initial>>

\* Array.prototype.map visits the indices below the length the array had when map
\* was called, whatever is pushed meanwhile
mapLengthMutantLive(len, handlerArray) == Len(handlerArray)
mapLength(len, handlerArray) == len

\* the synchronous part of the handler invocation running in slot s ends
handlerEnds(s, how) ==
  LET em == emissions[s]
      h == em.calls[em.idx][1]
      ended == Gave(em, Given(how))
      wrapped == Gave(em, Wrapped(Given(how)))
  IN /\ em.st = "calling"
     /\ IF em.kind = "emit"
        THEN \* handler(c, payload): the value returned is dropped, a throw leaves the loop
             IF Throws(how) THEN Finish(s, ended, "threw", HandlerError(h))
             ELSE IF em.idx < Len(arrays[em.arr]) THEN InvokeNext(s, ended)
             ELSE Finish(s, ended, "returned", NoError)
        ELSE IF Sequencial(em.mode)
        THEN \* await handler(c, payload)
             IF Throws(how) THEN Finish(s, ended, "rejected", HandlerError(h))
             ELSE Await(s, ended)
        ELSE \* handlerArray.map(async (handler) => { await handler(c, payload) })
             IF em.idx < mapLength(em.len, arrays[em.arr]) THEN InvokeNext(s, wrapped)
             ELSE Await(s, wrapped)
     /\ UNCHANGED <<eventHandlers, created, options, handlers, initial>>

\* the pending promise returned by the i-th handler invoked by slot s settles
settle(s, i, how) ==
  LET em == emissions[s]
  IN /\ em.st # "idle" /\ ~Calling
     /\ i \in 1..Len(em.promises) /\ em.promises[i] = "pending"
     /\ emissions' = [emissions EXCEPT ![s] = Settled(em, i, how)]
     /\ UNCHANGED <<eventHandlers, arrays, created, options, handlers, initial, result>>

\* a promise that the i-th handler of the last emit returned, and emit dropped, settles
settleAfterEmit(i, how) ==
  /\ result.op = "emit" /\ ~Calling
  /\ i \in 1..Len(result.promises) /\ result.promises[i] = "pending"
  /\ result' = Settled(result, i, how)
  /\ UNCHANGED <<eventHandlers, arrays, created, options, handlers, initial, emissions>>

\* Promise.allSettled(promises) has settled
allSettledMutantRejectsEarly(promises) ==
  \/ \A i \in 1..Len(promises) : promises[i] # "pending"
  \/ \E i \in 1..Len(promises) : promises[i] = "rejected"
allSettledMutantNever(promises) == FALSE
allSettled(promises) == \A i \in 1..Len(promises) : promises[i] # "pending"

\* results.filter((r) => r.status === "rejected").map((e) => e.reason)
RECURSIVE reasonsMutantReversed(_, _)
reasonsMutantReversed(promises, calls) ==
  IF promises = <<>> THEN <<>>
  ELSE reasonsMutantReversed(Tail(promises), Tail(calls))
         \o (IF Head(promises) = "rejected" THEN <<Head(calls)[1]>> ELSE <<>>)
RECURSIVE Reasons(_, _)
Reasons(promises, calls) ==
  IF promises = <<>> THEN <<>>
  ELSE (IF Head(promises) = "rejected" THEN <<Head(calls)[1]>> ELSE <<>>)
         \o Reasons(Tail(promises), Tail(calls))

\* the awaited promise of slot s has settled and emitAsync goes on
resume(s) ==
  LET em == emissions[s]
  IN /\ em.st = "awaiting" /\ ~Calling
     /\ IF Sequencial(em.mode)
        THEN /\ em.promises[em.idx] # "pending"
             /\ IF em.promises[em.idx] = "rejected"
                THEN Finish(s, em, "rejected", HandlerError(em.calls[em.idx][1]))
                ELSE IF em.idx < Len(arrays[em.arr]) THEN InvokeNext(s, em)
                ELSE Finish(s, em, "resolved", NoError)
        ELSE /\ allSettled(em.promises)
             /\ LET errors == Reasons(em.promises, em.calls)
                IN IF Len(errors) > 0
                   THEN Finish(s, em, "rejected",
                               AggregateError(errors, Message(Len(errors), em.key)))
                   ELSE Finish(s, em, "resolved", NoError)
     /\ UNCHANGED <<eventHandlers, created, options, handlers, initial>>

\* ---------------------------------------------------------- specifications
\* the handlers tried under each key
HandlersFor(key) == IF key = "a" THEN Functions ELSE {"h1"}

\* registry calls alone, over every option and initial mapping
Next ==
  \/ \E opt \in OptionValues : createEmitter("e1", opt) /\ UNCHANGED aside
  \/ \E key \in StringKeys, handler \in Functions \cup {NotAFunction} :
       /\ handler \in HandlersFor(key) \cup {NotAFunction}
       /\ on("e1", key, handler) /\ UNCHANGED aside
  \/ \E key \in StringKeys, handler \in Values :
       /\ handler \in HandlersFor(key) \cup {Undefined, NotAFunction}
       /\ off("e1", key, handler) /\ UNCHANGED aside

Spec == Init /\ [][Next]_vars

Range(seq) == {seq[i] : i \in 1..Len(seq)}

\* history of an on call: a repeated subscription is noted, and a successful one
\* ends the effect of the earlier off calls for that handler and for the whole key
RecordOn(e, key, handler) ==
  /\ twice' = IF handler \in Range(HandlerList(e, key))
              THEN [twice EXCEPT ![e] = @ \cup {<<key, handler>>}]
              ELSE twice
  /\ unsubscribed' = IF result'.outcome = "ok"
                     THEN [unsubscribed EXCEPT ![e] = @ \ {<<key, handler>>, <<key, Undefined>>}]
                     ELSE unsubscribed
  /\ UNCHANGED <<subscribed, removed, thrown>>

\* history of an off call: the call is in effect, and the subscriptions it removes are over
RecordOff(e, key, handler) ==
  /\ twice' = [twice EXCEPT ![e] =
                 {p \in @ : p[1] # key \/ (~Falsy(handler) /\ p[2] # handler)}]
  /\ unsubscribed' = [unsubscribed EXCEPT ![e] = @ \cup {<<key, handler>>}]
  /\ UNCHANGED <<subscribed, removed, thrown>>

EmitOptionValues == {NoOption, <<0>>, <<1>>}
EmitKeys == {"a"}
EmitModes == {<<>>, <<"concurrent">>, <<"sequencial">>}

\* registry calls and emissions made one after the other by one caller
NextEmit ==
  \/ \E opt \in EmitOptionValues : createEmitter("e1", opt) /\ UNCHANGED aside
  \/ \E key \in EmitKeys, handler \in Functions :
       /\ handler \in HandlersFor(key) /\ Quiet
       /\ on("e1", key, handler) /\ RecordOn("e1", key, handler)
       /\ UNCHANGED <<hono, clock>>
  \/ \E key \in EmitKeys, handler \in Functions \cup {Undefined} :
       /\ handler \in HandlersFor(key) \cup {Undefined} /\ Quiet
       /\ off("e1", key, handler) /\ RecordOff("e1", key, handler)
       /\ UNCHANGED <<hono, clock>>
  \/ \E key \in EmitKeys : emit(1, "e1", key, "c1", "p1") /\ UNCHANGED aside
  \/ \E key \in EmitKeys, opts \in EmitModes :
       emitAsync(1, "e1", key, "c1", "p1", opts) /\ UNCHANGED aside
  \/ \E how \in HandlerEnds : handlerEnds(1, how) /\ UNCHANGED aside
  \/ \E i \in 1..Len(emissions[1].promises), how \in {"fulfilled", "rejected"} :
       settle(1, i, how) /\ UNCHANGED aside
  \/ \E i \in 1..Len(result.promises), how \in {"fulfilled", "rejected"} :
       settleAfterEmit(i, how) /\ UNCHANGED aside
  \/ resume(1) /\ UNCHANGED aside

SpecEmit == Init /\ [][NextEmit]_vars

\* an emitAsync with registry calls made while it is in flight, by its handlers or
\* by other callers, under the scheduling of the event loop: a handler that runs
\* comes to its end, a pending promise of a handler settles, and a continuation
\* that is ready is run
LiveOptionValues == {<<2>>}
LiveHandlers == {"h1", "h2"}

NextLive ==
  \/ \E opt \in LiveOptionValues : createEmitter("e1", opt) /\ UNCHANGED aside
  \/ \E key \in EmitKeys, handler \in LiveHandlers :
       on("e1", key, handler) /\ UNCHANGED aside
  \/ \E key \in EmitKeys, handler \in {"h1", Undefined} :
       off("e1", key, handler) /\ UNCHANGED aside
  \/ \E key \in EmitKeys, opts \in EmitModes :
       emitAsync(1, "e1", key, "c1", "p1", opts) /\ UNCHANGED aside
  \/ \E how \in HandlerEnds : handlerEnds(1, how) /\ UNCHANGED aside
  \/ \E i \in 1..Len(emissions[1].promises), how \in {"fulfilled", "rejected"} :
       settle(1, i, how) /\ UNCHANGED aside
  \/ resume(1) /\ UNCHANGED aside

SpecLive ==
  /\ Init /\ [][NextLive]_vars
  /\ WF_vars(\E how \in HandlerEnds : handlerEnds(1, how) /\ UNCHANGED aside)
  /\ WF_vars(\E i \in 1..Len(emissions[1].promises), how \in {"fulfilled", "rejected"} :
               settle(1, i, how) /\ UNCHANGED aside)
  /\ WF_vars(resume(1) /\ UNCHANGED aside)

\* two emitters made from one eventHandlers object, with string and symbol keys,
\* and the caller going on to use the arrays of that object
SharedKeys == {"a", "sym"}
SharedHandlers == {"h2"}
SharedMappings ==
  {<<>>, <<[k \in {"a"} |-> <<"h1">>]>>, <<[k \in {"sym"} |-> <<"h1">>]>>,
   <<[k \in SharedKeys |-> IF k = "a" THEN <<"h1">> ELSE <<"h2">>]>>}

InitShared == \E m \in SharedMappings : InitWith(m)

\* eventHandlers[key].push(handler), done by the caller after createEmitter
callerPush(key, handler) ==
  /\ eventHandlers # <<>> /\ key \in DOMAIN eventHandlers[1]
  /\ \E e \in Emitters : created[e]
  /\ Len(arrays[eventHandlers[1][key]]) < MaxInitLen
  /\ arrays' = [arrays EXCEPT ![eventHandlers[1][key]] = push(@, handler)]
  /\ result' = Outcome("push", "none", key, handler, "ok")
  /\ UNCHANGED <<eventHandlers, created, options, handlers, initial, emissions>>

NextShared ==
  \/ \E e \in Emitters : createEmitter(e, NoOption) /\ UNCHANGED aside
  \/ \E e \in Emitters, key \in SharedKeys, handler \in SharedHandlers :
       on(e, key, handler) /\ UNCHANGED aside
  \/ \E e \in Emitters, key \in SharedKeys, handler \in {"h1", Undefined} :
       off(e, key, handler) /\ UNCHANGED aside
  \/ \E key \in SharedKeys, handler \in SharedHandlers :
       callerPush(key, handler) /\ UNCHANGED aside

SpecShared == InitShared /\ [][NextShared]_vars

\* registry calls made while an emit or an emitAsync is in flight: by the handler it
\* is running or, while emitAsync is suspended, by another caller
NextNested ==
  \/ NextLive
  \/ \E key \in EmitKeys : emit(1, "e1", key, "c1", "p1") /\ UNCHANGED aside

SpecNested == Init /\ [][NextNested]_vars

\* a Hono application using the middleware: emitter(eventHandlers, options) is called
\* once, and the function it returns runs for each request
\* the Context object c of request r
ContextOf(r) == IF r = 1 THEN "c1" ELSE "c2"

\* emitter(eventHandlers, options): const instance = createEmitter(eventHandlers, options)
emitter(e, opt) ==
  /\ instance = "none"
  /\ createEmitter(e, opt)
  /\ instance' = e
  /\ UNCHANGED <<context, history, clock>>

\* the value c.set("emitter", instance) stores for request r
storedMutantPerRequest(inst, r) == IF r = 1 THEN inst ELSE CHOOSE e \in Emitters : e # inst
Stored(inst, r) == inst

\* async (c, next) => { c.set("emitter", instance); await next() } up to the call of next
middleware(r) ==
  /\ instance # "none" /\ context[r].at = "start" /\ ~Calling
  /\ context' = [context EXCEPT ![r] = [@ EXCEPT !.at = "next",
                                                 !.emitter = Stored(instance, r)]]
  /\ UNCHANGED <<eventHandlers, arrays, created, options, handlers, initial, emissions,
                 result, instance, history, clock>>

\* next() of request r is over
nextReturns(r) ==
  /\ context[r].at = "next" /\ emissions[r].st = "idle" /\ ~Calling
  /\ context' = [context EXCEPT ![r].at = "done"]
  /\ UNCHANGED <<eventHandlers, arrays, created, options, handlers, initial, emissions,
                 result, instance, history, clock>>

\* c.get("emitter").on(key, handler) in the route handler of request r
requestOn(r, key, handler) ==
  /\ context[r].at = "next" /\ Quiet
  /\ on(context[r].emitter, key, handler)
  /\ context' = [context EXCEPT ![r].added =
                   IF result'.outcome = "ok" THEN @ \cup {<<key, handler>>} ELSE @]
  /\ UNCHANGED <<instance, history, clock>>

\* c.get("emitter").emit(key, c, payload) in the route handler of request r
requestEmit(r, key, payload) ==
  /\ context[r].at = "next" /\ Quiet
  /\ emit(r, context[r].emitter, key, ContextOf(r), payload)
  /\ UNCHANGED aside

NextMiddleware ==
  \/ \E e \in Emitters : emitter(e, NoOption)
  \/ \E e \in Emitters : createEmitter(e, NoOption) /\ UNCHANGED aside
  \/ \E r \in Requests : middleware(r)
  \/ \E r \in Requests, key \in EmitKeys, handler \in LiveHandlers : requestOn(r, key, handler)
  \/ \E r \in Requests, key \in EmitKeys : requestEmit(r, key, "p1")
  \/ \E r \in Requests, how \in {"returns", "throws"} : handlerEnds(r, how) /\ UNCHANGED aside
  \/ \E r \in Requests : nextReturns(r)

SpecMiddleware == Init /\ [][NextMiddleware]_vars

\* an emitAsync whose handlers each return a promise that a timer fulfils after a
\* duration of the handler's own; the time is counted from the call of emitAsync,
\* synchronous code takes none, and a timer fires when its time has come
MaxDuration == 2
Durations == 1..MaxDuration

\* the clock after a step of the emitAsync: a handler the step has invoked is due
\* d after now, and an emitAsync the step has ended took the time elapsed
Timed(d) ==
  LET em == emissions'[1]
      called == em.st = "calling" /\ Len(em.calls) > Len(clock.due)
      over == emissions[1].st # "idle" /\ em.st = "idle"
  IN clock' = [clock EXCEPT !.durations = IF called THEN Append(@, d) ELSE @,
                            !.due = IF called THEN Append(@, clock.elapsed + d) ELSE @,
                            !.took = IF over THEN <<clock.elapsed>> ELSE @]

\* emitAsync(key, c, payload, options2) is called and the clock is started
timedEmitAsync(key, opts, d) ==
  /\ Quiet
  /\ emitAsync(1, "e1", key, "c1", "p1", opts)
  /\ LET called == emissions'[1].st = "calling"
     IN clock' = [elapsed |-> 0,
                  took |-> IF emissions'[1].st = "idle" THEN <<0>> ELSE <<>>,
                  durations |-> IF called THEN <<d>> ELSE <<>>,
                  due |-> IF called THEN <<d>> ELSE <<>>]
  /\ UNCHANGED <<history, hono>>

\* the handler that is running starts its timer and returns its promise
timedHandlerEnds(d) ==
  /\ handlerEnds(1, "promise") /\ Timed(d)
  /\ UNCHANGED <<history, hono>>

\* the timer of the i-th handler invoked fires and fulfils the handler's promise
timerFires(i) ==
  /\ i \in 1..Len(clock.due) /\ clock.due[i] = clock.elapsed
  /\ settle(1, i, "fulfilled")
  /\ UNCHANGED aside

\* emitAsync goes on after its await
timedResume(d) ==
  /\ resume(1) /\ Timed(d)
  /\ UNCHANGED <<history, hono>>

\* time passes: emitAsync is suspended, what it awaits has not settled, and no timer
\* is due
tick ==
  LET em == emissions[1]
  IN /\ em.st = "awaiting"
     /\ IF Sequencial(em.mode) THEN em.promises[em.idx] = "pending"
        ELSE ~allSettled(em.promises)
     /\ \A i \in 1..Len(em.promises) :
          em.promises[i] = "pending" => clock.due[i] > clock.elapsed
     /\ clock' = [clock EXCEPT !.elapsed = @ + 1]
     /\ UNCHANGED <<eventHandlers, arrays, created, options, handlers, initial, emissions,
                    result, history, hono>>

NextTimed ==
  \/ createEmitter("e1", NoOption) /\ UNCHANGED aside
  \/ \E key \in EmitKeys, handler \in Functions :
       Quiet /\ on("e1", key, handler) /\ UNCHANGED aside
  \/ \E key \in EmitKeys, opts \in EmitModes, d \in Durations : timedEmitAsync(key, opts, d)
  \/ \E d \in Durations : timedHandlerEnds(d)
  \/ \E i \in 1..Len(emissions[1].promises) : timerFires(i)
  \/ \E d \in Durations : timedResume(d)
  \/ tick

SpecTimed == Init /\ [][NextTimed]_vars

\* on and off calls with the history of the order they make, and emissions between
\* them, on an emitter created without initial handlers
InitOrder == InitWith(<<>>)

OrderOptionValues == {NoOption, <<MaxLimit>>}

\* history of an on call: a handler that on has added is the last one subscribed
OrderOn(e, key, handler) ==
  /\ subscribed' = IF result'.outcome = "ok" /\ handler \notin Range(subscribed[e][key])
                   THEN [subscribed EXCEPT ![e][key] = Append(@, handler)]
                   ELSE subscribed
  /\ UNCHANGED <<twice, unsubscribed, removed, thrown>>

\* history of an off call: the handlers it takes out are subscribed no more
OrderOff(e, key, handler) ==
  LET stayed == IF Falsy(handler) THEN <<>>
                ELSE SelectSeq(subscribed[e][key], LAMBDA h : h # handler)
  IN /\ subscribed' = [subscribed EXCEPT ![e][key] = stayed]
     /\ removed' = IF stayed # subscribed[e][key]
                   THEN [removed EXCEPT ![e][key] =
                           <<[handler |-> handler, was |-> subscribed[e][key],
                              stayed |-> stayed]>>]
                   ELSE removed
     /\ UNCHANGED <<twice, unsubscribed, thrown>>

NextOrder ==
  \/ \E opt \in OrderOptionValues : createEmitter("e1", opt) /\ UNCHANGED aside
  \/ \E key \in EmitKeys, handler \in Functions :
       /\ Quiet /\ on("e1", key, handler) /\ OrderOn("e1", key, handler)
       /\ UNCHANGED <<hono, clock>>
  \/ \E key \in EmitKeys, handler \in Functions \cup {Undefined} :
       /\ Quiet /\ off("e1", key, handler) /\ OrderOff("e1", key, handler)
       /\ UNCHANGED <<hono, clock>>
  \/ \E key \in EmitKeys : emit(1, "e1", key, "c1", "p1") /\ UNCHANGED aside
  \/ \E key \in EmitKeys, opts \in EmitModes :
       emitAsync(1, "e1", key, "c1", "p1", opts) /\ UNCHANGED aside
  \/ \E how \in HandlerEnds : handlerEnds(1, how) /\ UNCHANGED aside
  \/ \E i \in 1..Len(emissions[1].promises), how \in {"fulfilled", "rejected"} :
       settle(1, i, how) /\ UNCHANGED aside
  \/ resume(1) /\ UNCHANGED aside

SpecOrder == InitOrder /\ [][NextOrder]_vars

\* emissions over handlers that return, throw, or give a promise, with the history
\* of the handlers that threw synchronously
\* history of the start of a call in slot s: no handler of it has thrown
NoneThrown(s) ==
  /\ thrown' = [thrown EXCEPT ![s] = {}]
  /\ UNCHANGED <<twice, unsubscribed, subscribed, removed>>

\* history of the end of the handler running in slot s
NoteThrown(s, how) ==
  /\ thrown' = IF how = "throws" THEN [thrown EXCEPT ![s] = @ \cup {emissions[s].idx}]
               ELSE thrown
  /\ UNCHANGED <<twice, unsubscribed, subscribed, removed>>

NextThrow ==
  \/ createEmitter("e1", NoOption) /\ UNCHANGED aside
  \/ \E key \in EmitKeys, handler \in Functions :
       Quiet /\ on("e1", key, handler) /\ UNCHANGED aside
  \/ \E key \in EmitKeys, handler \in {"h1", Undefined} :
       Quiet /\ off("e1", key, handler) /\ UNCHANGED aside
  \/ \E key \in EmitKeys :
       emit(1, "e1", key, "c1", "p1") /\ NoneThrown(1) /\ UNCHANGED <<hono, clock>>
  \/ \E key \in EmitKeys, opts \in EmitModes :
       emitAsync(1, "e1", key, "c1", "p1", opts) /\ NoneThrown(1) /\ UNCHANGED <<hono, clock>>
  \/ \E how \in HandlerEnds :
       handlerEnds(1, how) /\ NoteThrown(1, how) /\ UNCHANGED <<hono, clock>>
  \/ \E i \in 1..Len(emissions[1].promises), how \in {"fulfilled", "rejected"} :
       settle(1, i, how) /\ UNCHANGED aside
  \/ resume(1) /\ UNCHANGED aside

SpecThrow == Init /\ [][NextThrow]_vars

\* registry calls and emissions over two keys, with a limit that one key reaches
\* while the other has room
IsolatedKeys == {"a", "b"}
IsolatedHandlers == {"h1", "h2"}
IsolatedOptionValues == {NoOption, <<1>>}

NextKeys ==
  \/ \E opt \in IsolatedOptionValues : createEmitter("e1", opt) /\ UNCHANGED aside
  \/ \E key \in IsolatedKeys, handler \in IsolatedHandlers :
       Quiet /\ on("e1", key, handler) /\ UNCHANGED aside
  \/ \E key \in IsolatedKeys, handler \in {"h1", Undefined} :
       Quiet /\ off("e1", key, handler) /\ UNCHANGED aside
  \/ \E key \in IsolatedKeys : emit(1, "e1", key, "c1", "p1") /\ UNCHANGED aside
  \/ \E key \in IsolatedKeys, opts \in EmitModes :
       emitAsync(1, "e1", key, "c1", "p1", opts) /\ UNCHANGED aside
  \/ \E how \in {"returns", "throws", "promise"} : handlerEnds(1, how) /\ UNCHANGED aside
  \/ \E i \in 1..Len(emissions[1].promises), how \in {"fulfilled", "rejected"} :
       settle(1, i, how) /\ UNCHANGED aside
  \/ resume(1) /\ UNCHANGED aside

SpecKeys == Init /\ [][NextKeys]_vars

\* two emitAsync calls of one key that overlap: the second is called while the
\* first is suspended at its await, each with a context of its own
NextOverlap ==
  \/ createEmitter("e1", NoOption) /\ UNCHANGED aside
  \/ \E key \in EmitKeys, handler \in Functions :
       Quiet /\ on("e1", key, handler) /\ UNCHANGED aside
  \/ \E s \in Slots, key \in EmitKeys, opts \in EmitModes :
       emitAsync(s, "e1", key, ContextOf(s), "p1", opts) /\ UNCHANGED aside
  \/ \E s \in Slots, how \in HandlerEnds : handlerEnds(s, how) /\ UNCHANGED aside
  \/ \E s \in Slots :
       \E i \in 1..Len(emissions[s].promises), how \in {"fulfilled", "rejected"} :
         settle(s, i, how) /\ UNCHANGED aside
  \/ \E s \in Slots : resume(s) /\ UNCHANGED aside

SpecOverlap == InitOrder /\ [][NextOverlap]_vars

\* ------------------------------------------------------------------ claims
E == "e1"

Max(a, b) == IF a >= b THEN a ELSE b

\* the limit an emitter was created with: options.maxHandlers, 10 when not given
MaxHandlers(e) == IF options[e] = NoOption THEN DefaultMaxHandlers ELSE options[e][1]

\* the handler array after the step
HandlerListAfter(e, key) ==
  IF has(handlers'[e], key) THEN arrays'[handlers'[e][key]] ELSE <<>>

\* the list given for key when the emitter was created (none reads as empty)
InitialList(e, key) == IF has(initial[e], key) THEN initial[e][key] ELSE <<>>

\* seq without its entries equal to v, the others in their order
RECURSIVE Without(_, _)
Without(seq, v) ==
  IF seq = <<>> THEN <<>>
  ELSE (IF Head(seq) = v THEN <<>> ELSE <<Head(seq)>>) \o Without(Tail(seq), v)

\* the position of the first entry of seq equal to v (0 when there is none)
IndexOf(seq, v) ==
  IF v \in Range(seq)
  THEN CHOOSE i \in 1..Len(seq) : seq[i] = v /\ \A j \in 1..(i - 1) : seq[j] # v
  ELSE 0

\* the step is a call of op
StepOf(op) == result'.op = op /\ result'.e = E

\* the last call to end was an emission, and it has ended
Emitted(key) ==
  /\ result.op \in {"emit", "emitAsync"} /\ result.e = E /\ result.key = key
  /\ result.outcome \in {"returned", "threw", "resolved", "rejected"}

\* that emission was left at the first failing handler (emit, sequencial emitAsync)
CutShort == result.outcome \in {"threw", "rejected"} /\ ~result.error.aggregate

\* C1: a handler that on has subscribed to a key two or more times (the key having
\* started without handlers) is in the key's list once, is invoked at most once by
\* every later emit or emitAsync of the key, and exactly once unless a handler
\* listed before it made that emission stop
C1_SubscribedTwiceInvokedOnce ==
  \A key \in Keys, h \in Functions :
    (<<key, h>> \in twice[E] /\ InitialList(E, key) = <<>>) =>
      /\ Count(h, HandlerList(E, key)) = 1
      /\ \A s \in Slots :
           (emissions[s].st # "idle" /\ emissions[s].key = key)
             => Count(h, Invoked(emissions[s].calls)) <= 1
      /\ Emitted(key) =>
           \/ Count(h, Invoked(result.calls)) = 1
           \/ /\ CutShort
              /\ Count(h, Invoked(result.calls)) = 0
              /\ IndexOf(HandlerList(E, key), h) > Len(result.calls)

C1_Witness ==
  /\ Emitted("a") /\ result.op = "emitAsync" /\ result.outcome = "resolved"
  /\ <<"a", "h1">> \in twice[E] /\ InitialList(E, "a") = <<>>
  /\ Invoked(result.calls) = <<"h2", "h1">>

\* C2: on(key, h) with a handler that is not in key's list appends it and returns
\* while the list is shorter than maxHandlers, and from then on throws the limit
\* error (RangeError) and leaves the list as it was
C2_LimitEnforced ==
  [][\A key \in Keys, h \in Functions :
       (StepOf("on") /\ result'.key = key /\ result'.handler = h
          /\ h \notin Range(HandlerList(E, key)))
       => IF Len(HandlerList(E, key)) < MaxHandlers(E)
          THEN /\ result'.outcome = "ok"
               /\ HandlerListAfter(E, key) = Append(HandlerList(E, key), h)
          ELSE /\ result'.outcome = "RangeError"
               /\ HandlerListAfter(E, key) = HandlerList(E, key)]_vars

C2_Witness ==
  /\ result.op = "on" /\ result.outcome = "RangeError" /\ result.key = "a"
  /\ InitialList(E, "a") = <<>> /\ options[E] = <<MaxLimit>>
  /\ Len(HandlerList(E, "a")) = MaxLimit
  /\ result.handler \notin Range(HandlerList(E, "a"))

\* C3: on(key, h) with a handler that is already in key's list returns without
\* error and leaves the list unchanged, also when the list is full (stated for
\* the emitters with a positive maxHandlers and lists built by on alone)
C3_DuplicateOnIsNoOp ==
  [][\A key \in Keys, h \in Functions :
       (StepOf("on") /\ result'.key = key /\ result'.handler = h
          /\ MaxHandlers(E) > 0 /\ InitialList(E, key) = <<>>
          /\ h \in Range(HandlerList(E, key)))
       => /\ result'.outcome = "ok"
          /\ HandlerListAfter(E, key) = HandlerList(E, key)]_vars

\* C4 as claimed: no list is ever longer than maxHandlers (stated for the emitters
\* with a positive maxHandlers)
C4_LengthAtMostLimit ==
  \A key \in Keys :
    (created[E] /\ MaxHandlers(E) > 0) => Len(HandlerList(E, key)) <= MaxHandlers(E)

\* C4: no list is ever longer than the larger of maxHandlers and the length of the
\* list given for the key at construction (on never makes a list longer than
\* maxHandlers; createEmitter takes the initial lists as they are)
C4_LengthAtMostLimitOrInitial ==
  \A key \in Keys :
    created[E] =>
      Len(HandlerList(E, key)) <= Max(Max(MaxHandlers(E), 0), Len(InitialList(E, key)))

C4_Witness ==
  /\ result.op = "on" /\ result.outcome = "RangeError" /\ result.key = "a"
  /\ Len(InitialList(E, "a")) > MaxHandlers(E) /\ MaxHandlers(E) > 0
  /\ HandlerList(E, "a") = InitialList(E, "a")

\* C5 as claimed: no list ever holds the same handler twice
C5_NoDuplicates ==
  \A key \in Keys, h \in Functions : created[E] => Count(h, HandlerList(E, key)) <= 1

\* C5: a list holds a handler twice only if the list given for that key at
\* construction did: on never adds a handler that is in the list, and no handler
\* occurs in a list more often than in the key's initial list, or once
C5_NoDuplicatesButInitial ==
  \A key \in Keys, h \in Functions :
    created[E] =>
      Count(h, HandlerList(E, key)) <= Max(1, Count(h, InitialList(E, key)))

C5_Witness ==
  /\ result.op = "on" /\ result.outcome = "ok" /\ result.key = "a"
  /\ result.handler = "h1" /\ InitialList(E, "a") = <<>>
  /\ HandlerList(E, "a") = <<"h1", "h2">>

\* C6: on(key, v) with v not a function throws the TypeError and changes neither
\* the Map nor any array
C6_NonFunctionRejected ==
  [][(StepOf("on") /\ result'.handler \notin Functions)
       => /\ result'.outcome = "TypeError"
          /\ handlers' = handlers /\ arrays' = arrays]_vars

C6_Witness ==
  /\ result.op = "on" /\ result.outcome = "TypeError" /\ result.key = "b"
  /\ ~has(handlers[E], "b") /\ HandlerList(E, "a") = <<"h1", "h2">>

C8_OffKeySilencesKey ==
  \A key \in Keys :
    <<key, Undefined>> \in unsubscribed[E] =>
      /\ HandlerList(E, key) = <<>>
      /\ \A s \in Slots : emissions[s].st # "idle" /\ emissions[s].key = key
                            => emissions[s].calls = <<>>
      /\ Emitted(key) => (result.calls = <<>> /\ result.outcome \in {"returned", "resolved"})

C8_Witness ==
  /\ Emitted("a") /\ result.op = "emit" /\ result.calls = <<>>
  /\ <<"a", Undefined>> \in unsubscribed[E]
  /\ Len(InitialList(E, "a")) = MaxInitLen

\* C9: off(key, h) leaves key's list as it was without the entries equal to h, the
\* others in their order; while that off is in effect (h not subscribed again) no
\* emission of key invokes h, and an emission that is not cut short invokes the
\* handlers of the list, each in its place
C9_OffRemovesOnlyHandler ==
  /\ [][\A key \in Keys, h \in Functions :
          (StepOf("off") /\ result'.key = key /\ result'.handler = h)
          => /\ HandlerListAfter(E, key) = Without(HandlerList(E, key), h)
             /\ result'.outcome = "ok"]_vars
  /\ [](\A key \in Keys, h \in Functions :
          <<key, h>> \in unsubscribed[E] =>
            /\ h \notin Range(HandlerList(E, key))
            /\ \A s \in Slots : emissions[s].st # "idle" /\ emissions[s].key = key
                                  => h \notin Range(Invoked(emissions[s].calls))
            /\ Emitted(key) =>
                 /\ h \notin Range(Invoked(result.calls))
                 /\ ~CutShort => Invoked(result.calls) = HandlerList(E, key))

C9_Witness ==
  /\ Emitted("a") /\ result.outcome = "returned"
  /\ <<"a", "h2">> \in unsubscribed[E]
  /\ Invoked(result.calls) = <<"h1", "h3">>

\* C10: off never throws, and an off(key, h) with h not in key's list, an off on a
\* key without handlers, and an off that repeats the call before it, leave every
\* key's list of handlers as it was
C10_OffIdempotent ==
  [][StepOf("off") =>
       /\ result'.outcome = "ok"
       /\ (\/ (~Falsy(result'.handler)
                 /\ result'.handler \notin Range(HandlerList(E, result'.key)))
           \/ HandlerList(E, result'.key) = <<>>
           \/ (result.op = "off" /\ result.e = E /\ result.key = result'.key
                 /\ result.handler = result'.handler))
          => \A key \in Keys : HandlerListAfter(E, key) = HandlerList(E, key)]_vars

C10_Witness ==
  /\ result.op = "off" /\ result.outcome = "ok" /\ result.key = "b"
  /\ result.handler = "h1" /\ ~has(handlers[E], "b")
  /\ HandlerList(E, "a") = <<"h1", "h2", "h3">>

\* ------------------------------------------------- claims about emissions
\* the carrier and the payload every emission of the specifications passes
Carrier == "c1"
Payload == "p1"

\* p is the beginning of seq
IsPrefix(p, seq) == Len(p) <= Len(seq) /\ \A i \in 1..Len(p) : p[i] = seq[i]

\* the last call to end was op on key, and it has ended
Done(op, key) == Emitted(key) /\ result.op = op

\* the positions of the invocations that failed: threw, or gave a promise that rejected
Failing(promises) == {i \in 1..Len(promises) : promises[i] \in {"threw", "rejected"}}

\* the entries of seq at the given positions, in the order of seq
RECURSIVE AtPositions(_, _)
AtPositions(seq, positions) ==
  IF positions = {} THEN <<>>
  ELSE LET least == CHOOSE i \in positions : \A j \in positions : i <= j
       IN <<seq[least]>> \o AtPositions(seq, positions \ {least})

C12_NoHandlersNothingInvoked ==
  /\ [](\A key \in Keys :
          /\ \A s \in Slots :
               (emissions[s].st # "idle" /\ emissions[s].e = E /\ emissions[s].key = key
                  /\ HandlerList(E, key) = <<>>)
               => (emissions[s].calls = <<>> /\ emissions[s].st = "awaiting")
          /\ (Emitted(key) /\ HandlerList(E, key) = <<>>) =>
               /\ result.calls = <<>> /\ result.error = NoError
               /\ result.outcome = IF result.op = "emit" THEN "returned" ELSE "resolved")
  /\ [][\A key \in Keys :
          (result'.op \in {"emit", "emitAsync"} /\ result'.key = key
             /\ HandlerList(E, key) = <<>>)
          => /\ handlers' = handlers
             /\ \A k \in Keys : HandlerListAfter(E, k) = HandlerList(E, k)]_vars

C12_Witness ==
  /\ Done("emitAsync", "a") /\ result.outcome = "resolved" /\ result.mode = "concurrent"
  /\ has(handlers[E], "a") /\ HandlerList(E, "a") = <<>>
  /\ Len(InitialList(E, "a")) = MaxInitLen

C14_ConcurrentAggregatesInListOrder ==
  \A key \in Keys :
    (Done("emitAsync", key) /\ result.mode = "concurrent") =>
      LET failing == Failing(result.promises)
      IN /\ (result.outcome = "rejected") <=> (failing # {})
         /\ (result.outcome = "resolved") <=> (failing = {})
         /\ failing = {} => result.error = NoError
         /\ failing # {} =>
              /\ result.error.aggregate
              /\ result.error.errors = AtPositions(HandlerList(E, key), failing)
              /\ Len(result.error.errors) = Cardinality(failing)
              /\ result.error.message = <<Cardinality(failing), key>>
              /\ Range(result.failed) = failing

C14_Witness ==
  /\ Done("emitAsync", "a") /\ result.mode = "concurrent" /\ result.outcome = "rejected"
  /\ HandlerList(E, "a") = <<"h1", "h2", "h3">>
  /\ result.failed = <<3, 1>>
  /\ result.error.errors = <<"h1", "h3">>

\* C15: when an emitAsync that is not sequencial resolves or rejects, every handler
\* of the list has been invoked and the promise of every one of them has settled
C15_ConcurrentNeverShortCircuits ==
  \A key \in Keys :
    (Done("emitAsync", key) /\ result.mode = "concurrent") =>
      /\ Invoked(result.calls) = HandlerList(E, key)
      /\ Len(result.promises) = Len(result.calls)
      /\ \A i \in 1..Len(result.promises) : result.promises[i] \in {"fulfilled", "rejected"}

C15_Witness ==
  /\ Done("emitAsync", "a") /\ result.mode = "concurrent" /\ result.outcome = "rejected"
  /\ Len(result.calls) = 3
  /\ result.promises = <<"rejected", "fulfilled", "fulfilled">>
  /\ result.failed = <<1>>

\* C16: a sequencial emitAsync invokes the handlers in list order, and invokes a
\* handler only when the promises of all handlers before it have settled: at most
\* one promise of the emission is pending, that of the handler invoked last
C16_SequencialOneInFlight ==
  \A s \in Slots :
    LET em == emissions[s]
    IN (em.st # "idle" /\ em.kind = "emitAsync" /\ em.mode = "sequencial") =>
         /\ IsPrefix(Invoked(em.calls), arrays[em.arr])
         /\ Len(em.promises) = IF em.st = "calling" THEN Len(em.calls) - 1 ELSE Len(em.calls)
         /\ \A i \in 1..Len(em.promises) :
              /\ em.promises[i] = "pending" => i = Len(em.calls)
              /\ i < Len(em.calls) => em.promises[i] = "fulfilled"

C16_Witness ==
  /\ emissions[1].st = "awaiting" /\ emissions[1].mode = "sequencial"
  /\ emissions[1].promises = <<"fulfilled", "fulfilled", "pending">>

\* C17: an emitAsync that is not sequencial has invoked every handler of the list,
\* in list order, when it suspends; until then no step is made but by its handlers,
\* no promise settles, and the next handler is invoked whether or not the promises
\* of the handlers before it are still pending
C17_ConcurrentInvokesAllBeforeSuspending ==
  /\ [](\A s \in Slots :
          LET em == emissions[s]
          IN (em.st # "idle" /\ em.kind = "emitAsync" /\ em.mode = "concurrent") =>
               /\ IsPrefix(Invoked(em.calls), arrays[em.arr])
               /\ em.st = "awaiting" => Invoked(em.calls) = arrays[em.arr])
  /\ [][\A s \in Slots :
          LET em == emissions[s]
          IN (em.st = "calling" /\ em.kind = "emitAsync" /\ em.mode = "concurrent") =>
               /\ handlers' = handlers
               /\ \A t \in Slots \ {s} : emissions'[t] = emissions[t]
               /\ emissions'[s].st \in {"calling", "awaiting"}
               /\ Len(emissions'[s].promises) = Len(em.promises) + 1
               /\ \A i \in 1..Len(em.promises) : emissions'[s].promises[i] = em.promises[i]
               /\ IF Len(em.calls) < Len(arrays[em.arr])
                  THEN /\ emissions'[s].st = "calling"
                       /\ Len(emissions'[s].calls) = Len(em.calls) + 1
                  ELSE emissions'[s].st = "awaiting"]_vars

C17_Witness ==
  /\ emissions[1].st = "calling" /\ emissions[1].mode = "concurrent"
  /\ emissions[1].kind = "emitAsync"
  /\ emissions[1].promises = <<"pending", "pending">>
  /\ Len(emissions[1].calls) = 3

\* an emit step that went on after a handler gave it a promise: the last call was an
\* emit, and one of the promises its handlers returned now settles
SettlesLater ==
  /\ result.op = "emit" /\ result.outcome \in {"returned", "threw"}
  /\ Len(result'.promises) = Len(result.promises)
  /\ result'.promises # result.promises

\* C18: a handler that throws during emit ends that emit at once: it is the last
\* handler the emit invoked, the handlers before it in the list were invoked once
\* each, those after it not at all, and emit throws that handler's error; an emit
\* without a throwing handler returns
C18_ThrowAbortsEmit ==
  \A key \in Keys :
    Done("emit", key) =>
      LET list == HandlerList(E, key)
          n == Len(result.calls)
          threw == {i \in 1..Len(result.promises) : result.promises[i] = "threw"}
      IN /\ IsPrefix(Invoked(result.calls), list)
         /\ Len(result.promises) = n
         /\ IF threw = {}
            THEN result.outcome = "returned" /\ result.error = NoError
            ELSE /\ threw = {n}
                 /\ result.outcome = "threw"
                 /\ ~result.error.aggregate
                 /\ result.error.errors = <<list[n]>>

C18_Witness ==
  /\ Done("emit", "a") /\ result.outcome = "threw"
  /\ HandlerList(E, "a") = <<"h1", "h2", "h3">>
  /\ Invoked(result.calls) = <<"h1", "h2">>
  /\ result.error.errors = <<"h2">>

\* C19: emit does not wait for the promises its handlers return: a handler that
\* returns a promise, pending or rejected, does not end the loop, emit returns when
\* the last handler of the list has been invoked, whatever the promises are, and a
\* promise that settles afterwards changes neither how the emit ended nor what it
\* invoked, nor the registry
C19_EmitDoesNotAwait ==
  /\ [](\A key \in Keys :
          /\ Done("emit", key) =>
               /\ (result.outcome = "returned") <=>
                    (\A i \in 1..Len(result.promises) : result.promises[i] # "threw")
               /\ result.outcome = "returned" =>
                    (Invoked(result.calls) = HandlerList(E, key) /\ result.error = NoError)
          /\ \A s \in Slots :
               (emissions[s].st # "idle" /\ emissions[s].kind = "emit") =>
                 /\ emissions[s].st = "calling"
                 /\ \A i \in 1..Len(emissions[s].promises) :
                      emissions[s].promises[i] # "threw")
  /\ [][SettlesLater =>
          /\ result'.op = "emit" /\ result'.outcome = result.outcome
          /\ result'.calls = result.calls /\ result'.error = result.error
          /\ emissions' = emissions /\ handlers' = handlers /\ arrays' = arrays]_vars

C19_Witness ==
  /\ Done("emit", "a") /\ result.outcome = "returned"
  /\ Invoked(result.calls) = <<"h1", "h2", "h3">>
  /\ result.promises = <<"rejected", "rejected", "fulfilled">>
  /\ result.failed = <<2, 1>>

InFlight(s, kind, mode) ==
  /\ emissions[s].st # "idle" /\ emissions[s].e = E
  /\ emissions[s].kind = kind /\ emissions[s].mode = mode

\* C21: an emitAsync that is not sequencial invokes and waits for the handlers of
\* the list as it was when emitAsync was called, and settles by what they give,
\* whatever on and off calls are made while it is in flight, by one of its handlers
\* or by another caller
C21_ConcurrentDispatchesToSnapshot ==
  /\ [](\A s \in Slots :
          InFlight(s, "emitAsync", "concurrent") =>
            /\ IsPrefix(Invoked(emissions[s].calls), emissions[s].list)
            /\ emissions[s].st = "awaiting" =>
                 /\ Invoked(emissions[s].calls) = emissions[s].list
                 /\ Len(emissions[s].promises) = Len(emissions[s].list))
  /\ [][\A s \in Slots :
          (InFlight(s, "emitAsync", "concurrent") /\ emissions'[s].st = "idle") =>
            LET failing == Failing(result'.promises)
            IN /\ Invoked(result'.calls) = emissions[s].list
               /\ Len(result'.promises) = Len(emissions[s].list)
               /\ result'.outcome = IF failing = {} THEN "resolved" ELSE "rejected"
               /\ result'.error.errors = AtPositions(emissions[s].list, failing)]_vars

C21_Witness ==
  /\ InFlight(1, "emitAsync", "concurrent") /\ emissions[1].st = "awaiting"
  /\ emissions[1].list = <<"h1">> /\ arrays[emissions[1].arr] = <<"h1", "h2">>
  /\ Invoked(emissions[1].calls) = <<"h1">>
  /\ ~has(handlers[E], "a")

\* C27 as claimed: an emit and a sequencial emitAsync invoke handlers of the list
\* as it was when the emission was called, and no others, whatever on and off
\* calls are made while the emission is in flight (stated for the emitters created
\* without initial handlers)
C27_DispatchesToSnapshot ==
  \A s \in Slots :
    ((InFlight(s, "emit", "none") \/ InFlight(s, "emitAsync", "sequencial"))
       /\ initial[E] = EmptyMap) =>
      IsPrefix(Invoked(emissions[s].calls), emissions[s].list)

\* C22: an emitAsync call without options does what the call with mode concurrent
\* does: in every state, a step is the one call exactly when it is the other, so
\* both leave the same emission in flight, with the same handlers invoked and to
\* invoke, and the same result when the key has no handlers
C22_DefaultModeIsConcurrent ==
  [][\A s \in Slots, key \in Keys :
       emitAsync(s, E, key, Carrier, Payload, <<>>)
         <=> emitAsync(s, E, key, Carrier, Payload, <<"concurrent">>)]_vars

C22_Witness ==
  /\ InFlight(1, "emitAsync", "concurrent") /\ emissions[1].st = "calling"
  /\ emissions[1].list = <<"h2", "h1">>
  /\ emissions[1].promises = <<"rejected">>
  /\ result.op = "emitAsync" /\ result.outcome = "pending"

\* --------------------------- claims about emitters and the caller's arrays
\* the step is a call of op on emitter e
CallOf(op, e) == result'.op = op /\ result'.e = e

\* C23 as claimed: an on or an off on one emitter leaves the handler lists of
\* every other emitter as they were, also when both were created from the same
\* eventHandlers object
C23_EmittersShareNothing ==
  [][\A e \in Emitters, other \in Emitters :
       ((CallOf("on", e) \/ CallOf("off", e)) /\ other # e /\ created[other]) =>
         \A key \in Keys : HandlerListAfter(other, key) = HandlerList(other, key)]_vars

\* C24 as claimed: when createEmitter(eventHandlers) returns, every key of
\* eventHandlers, string or symbol, has the handlers given for it, in their order
C24_InitialKeysStartWithTheirHandlers ==
  \A e \in Emitters :
    (result.op = "createEmitter" /\ result.e = e /\ eventHandlers # <<>>) =>
      \A key \in DOMAIN eventHandlers[1] :
        HandlerList(e, key) = arrays[eventHandlers[1][key]]

\* C28 as claimed: an on call leaves the arrays of the caller's eventHandlers
\* object as they were, and a push the caller makes on one of those arrays leaves
\* the handler lists of every emitter as they were
C28_CallerArraysAreNotShared ==
  [][/\ result'.op = "on" =>
          (eventHandlers # <<>> =>
             \A key \in DOMAIN eventHandlers[1] :
               arrays'[eventHandlers[1][key]] = arrays[eventHandlers[1][key]])
     /\ result'.op = "push" =>
          \A e \in Emitters, key \in Keys :
            HandlerListAfter(e, key) = HandlerList(e, key)]_vars

\* C25: the middleware returned by emitter(...) holds one instance, created when
\* emitter(...) was called and never replaced; running the middleware for a request
\* creates no emitter and stores that instance in the request's context under
\* 'emitter' before next is called; and an emit made in one request that returns has
\* invoked every handler that any request, this one or an earlier one, subscribed
\* under the key
C25_MiddlewareSharesOneInstance ==
  /\ [](/\ instance # "none" => created[instance]
        /\ \A r \in Requests :
             context[r].at # "start" => instance # "none" /\ context[r].emitter = instance
        /\ \A r \in Requests :
             emissions[r].st # "idle" => emissions[r].e = instance
        /\ result.op = "emit" /\ result.outcome = "returned" =>
             \A q \in Requests, h \in Functions :
               <<result.key, h>> \in context[q].added => h \in Range(Invoked(result.calls)))
  /\ [][/\ instance # "none" => instance' = instance
        /\ \A r \in Requests :
             context[r].at = "start" /\ context'[r].at # "start" =>
               /\ context'[r].at = "next" /\ context'[r].emitter = instance
               /\ created' = created /\ handlers' = handlers /\ arrays' = arrays]_vars

\* request 1 subscribed h2 and is over; an emit made in request 2, which subscribed
\* nothing, has invoked h2 with the context of request 2
C25_Witness ==
  /\ instance = E /\ initial[E] = EmptyMap
  /\ context[1].at = "done" /\ context[1].added = {<<"a", "h2">>}
  /\ context[2].at = "next" /\ context[2].added = {}
  /\ result.op = "emit" /\ result.outcome = "returned"
  /\ result.calls = <<Call("h2", ContextOf(2), Payload)>>

RECURSIVE Sum(_)
Sum(seq) == IF seq = <<>> THEN 0 ELSE Head(seq) + Sum(Tail(seq))

RECURSIVE Largest(_)
Largest(seq) == IF seq = <<>> THEN 0 ELSE Max(Head(seq), Largest(Tail(seq)))

\* C26: an emitAsync whose handlers take the fixed durations d1..dn invokes all n of
\* them and resolves; in concurrent mode it completes when the largest di has
\* elapsed, in sequential mode when the sum d1+...+dn has
C26_ConcurrentTakesLargestSequentialSum ==
  [][clock.took = <<>> /\ clock'.took # <<>> =>
       /\ result'.op = "emitAsync" /\ result'.outcome = "resolved"
       /\ Len(clock'.durations) = Len(HandlerList(E, result'.key))
       /\ Invoked(result'.calls) = HandlerList(E, result'.key)
       /\ clock'.took = <<IF result'.mode = "sequencial" THEN Sum(clock'.durations)
                          ELSE Largest(clock'.durations)>>]_vars

\* a concurrent emitAsync over handlers of durations 1 and 2 has completed at time 2
C26_Witness ==
  /\ result.op = "emitAsync" /\ result.outcome = "resolved" /\ result.mode = "concurrent"
  /\ Invoked(result.calls) = <<"h1", "h2">>
  /\ clock.durations = <<1, 2>> /\ clock.took = <<2>>

\* what an on(key, handler) call made when key has no handlers gives
FirstOn(handler) ==
  IF typeof(handler) # "function" THEN "TypeError"
  ELSE IF MaxHandlers(E) <= 0 THEN "RangeError" ELSE "ok"

\* C29: a key that has no handlers behaves in one way, whether it is absent from the
\* registry or mapped to an empty list: what each on, off, emit and emitAsync call for
\* it gives, and the handlers it leaves under every key, are as written here, with no
\* regard to the key being present. on subscribes the handler as the only one or
\* throws; off leaves the key without handlers; emit returns and emitAsync resolves
\* without an invocation and without an error
C29_EmptyListIsAbsentKey ==
  /\ [](\A s \in Slots :
          emissions[s].st # "idle" /\ emissions[s].list = <<>> =>
            /\ emissions[s].kind = "emitAsync" /\ emissions[s].mode = "concurrent"
            /\ emissions[s].st = "awaiting" /\ emissions[s].calls = <<>>)
  /\ [][\A key \in Keys :
          HandlerList(E, key) = <<>> =>
            /\ \A handler \in Values :
                 on(E, key, handler) =>
                   /\ result' = Outcome("on", E, key, handler, FirstOn(handler))
                   /\ HandlerListAfter(E, key) =
                        IF FirstOn(handler) = "ok" THEN <<handler>> ELSE <<>>
                   /\ \A k \in Keys \ {key} : HandlerListAfter(E, k) = HandlerList(E, k)
            /\ \A handler \in Values :
                 off(E, key, handler) =>
                   /\ result' = Outcome("off", E, key, handler, "ok")
                   /\ \A k \in Keys : HandlerListAfter(E, k) = HandlerList(E, k)
            /\ \A s \in Slots :
                 emit(s, E, key, Carrier, Payload) =>
                   /\ result' = [Outcome("emit", E, key, Undefined, "returned")
                                   EXCEPT !.mode = "none"]
                   /\ emissions' = emissions
                   /\ \A k \in Keys : HandlerListAfter(E, k) = HandlerList(E, k)
            /\ \A s \in Slots, opts \in EmitModes :
                 emitAsync(s, E, key, Carrier, Payload, opts) =>
                   /\ \/ /\ result' = [Outcome("emitAsync", E, key, Undefined, "resolved")
                                         EXCEPT !.mode = Mode(opts)]
                         /\ emissions' = emissions
                      \/ /\ result' = Outcome("emitAsync", E, key, Undefined, "pending")
                         /\ emissions'[s].list = <<>> /\ emissions'[s].mode = Mode(opts)
                   /\ \A k \in Keys : HandlerListAfter(E, k) = HandlerList(E, k)]_vars
  /\ [][\A s \in Slots :
          emissions[s].st # "idle" /\ emissions[s].list = <<>>
            /\ emissions'[s].st = "idle" =>
              result' = [Outcome("emitAsync", E, emissions[s].key, Undefined, "resolved")
                           EXCEPT !.mode = "concurrent"]]_vars

\* off(key, h) has removed the last handler of a key, which stays mapped to an empty
\* list, and a sequential emitAsync for the key has resolved without an invocation
C29_Witness ==
  /\ initial[E] = EmptyMap
  /\ has(handlers[E], "a") /\ HandlerList(E, "a") = <<>>
  /\ Done("emitAsync", "a") /\ result.mode = "sequencial"
  /\ result.outcome = "resolved" /\ result.calls = <<>>

\* C30: on an emitter created without initial handlers, the list of a key holds the
\* handlers present in the order of the on calls that last added them (an on call
\* for a handler that is present adds nothing and moves nothing); the handlers that
\* an off call left stay at the front in their order, so that a handler subscribed
\* again comes after them; and an emission that is not cut short by a failure
\* invokes the handlers in that order
C30_OrderOfLastSubscription ==
  /\ [](\A key \in Keys :
          /\ HandlerList(E, key) = subscribed[E][key]
          /\ removed[E][key] # <<>> =>
               IsPrefix(removed[E][key][1].stayed, HandlerList(E, key))
          /\ \A s \in Slots :
               emissions[s].st # "idle" /\ emissions[s].key = key =>
                 IsPrefix(Invoked(emissions[s].calls), subscribed[E][key]))
  /\ [][\A s \in Slots :
          /\ emissions[s].st # "idle" /\ emissions'[s].st = "idle"
          /\ result'.outcome \in {"returned", "resolved"} \/ result'.error.aggregate
          => Invoked(result'.calls) = subscribed[E][result'.key]]_vars

\* off(a, h1) left h2 and h3, h1 was subscribed again, and an emit has invoked h2,
\* h3 and h1 in that order
C30_Witness ==
  /\ removed[E]["a"] # <<>>
  /\ removed[E]["a"][1].handler = "h1" /\ removed[E]["a"][1].stayed = <<"h2", "h3">>
  /\ HandlerList(E, "a") = <<"h2", "h3", "h1">>
  /\ Done("emit", "a") /\ result.outcome = "returned"
  /\ Invoked(result.calls) = <<"h2", "h3", "h1">>

\* C31: in an emitAsync that is not sequencial, a handler that throws synchronously
\* is treated as one that returns a rejected promise: the step the emission takes is
\* the same, the call does not end and has thrown nothing, the handler after it, if
\* there is one, is invoked, and when the call ends it rejects with an AggregateError
\* that holds the handler's error at the place the handler has among the failing ones
C31_SyncThrowIsRejection ==
  /\ [][\A s \in Slots :
          LET em == emissions[s]
          IN (em.st = "calling" /\ em.kind = "emitAsync" /\ em.mode = "concurrent") =>
               /\ handlerEnds(s, "throws") <=> handlerEnds(s, "rejects")
               /\ handlerEnds(s, "throws") =>
                    /\ result' = result /\ result.outcome = "pending"
                    /\ emissions'[s].promises = Append(em.promises, "rejected")
                    /\ IF em.idx < Len(em.list)
                       THEN /\ emissions'[s].st = "calling"
                            /\ emissions'[s].calls =
                                 Append(em.calls, Call(em.list[em.idx + 1], em.c, em.payload))
                       ELSE /\ emissions'[s].st = "awaiting"
                            /\ emissions'[s].calls = em.calls]_vars
  /\ [](\A key \in Keys :
          (Done("emitAsync", key) /\ result.mode = "concurrent" /\ thrown[1] # {}) =>
            /\ result.outcome = "rejected" /\ result.error.aggregate
            /\ Invoked(result.calls) = HandlerList(E, key)
            /\ thrown[1] \subseteq Failing(result.promises)
            /\ result.error.errors = AtPositions(Invoked(result.calls), Failing(result.promises)))

\* of three handlers the second threw synchronously and the third gave a promise
\* that rejected later: all three were invoked and the AggregateError holds the
\* errors of the second and the third
C31_Witness ==
  /\ Done("emitAsync", "a") /\ result.mode = "concurrent" /\ result.outcome = "rejected"
  /\ Invoked(result.calls) = <<"h1", "h2", "h3">>
  /\ thrown[1] = {2} /\ result.failed = <<2, 3>>
  /\ result.error.errors = <<"h2", "h3">>

\* C32: when off has taken a handler, or all of them, out of a list that held
\* maxHandlers handlers, the next on(key, h') with a handler h' that is not in the
\* list succeeds and puts h' after the handlers that stayed; and an emission of key
\* that is not cut short by a failure invokes the handlers subscribed since that off
C32_OffFreesCapacity ==
  /\ [][\A key \in Keys, handler \in Functions :
          (/\ removed[E][key] # <<>>
           /\ Len(removed[E][key][1].was) = MaxHandlers(E)
           /\ subscribed[E][key] = removed[E][key][1].stayed
           /\ handler \notin Range(subscribed[E][key])
           /\ on(E, key, handler))
          => /\ result' = Outcome("on", E, key, handler, "ok")
             /\ HandlerListAfter(E, key) = Append(removed[E][key][1].stayed, handler)]_vars
  /\ [](\A key \in Keys :
          (/\ Done("emit", key) \/ Done("emitAsync", key)
           /\ result.outcome \in {"returned", "resolved"} \/ result.error.aggregate
           /\ removed[E][key] # <<>>
           /\ Len(removed[E][key][1].was) = MaxHandlers(E))
          => \A h \in Range(subscribed[E][key]) : h \in Range(Invoked(result.calls)))

\* a list of maxHandlers handlers lost h1 by off(a, h1), on(a, h3) then succeeded,
\* and an emit has invoked h3 after the handlers that stayed
C32_Witness ==
  /\ options[E] = <<MaxLimit>> /\ removed[E]["a"] # <<>>
  /\ removed[E]["a"][1].handler = "h1"
  /\ Len(removed[E]["a"][1].was) = MaxLimit /\ "h3" \notin Range(removed[E]["a"][1].was)
  /\ HandlerList(E, "a") = Append(removed[E]["a"][1].stayed, "h3")
  /\ Done("emit", "a") /\ result.outcome = "returned"
  /\ Invoked(result.calls) = HandlerList(E, "a")

\* C33: an on or off call for a key leaves every other key as it is, in the registry
\* and in its list of handlers; whether on(key, h) with a handler that is not in
\* key's list meets the limit depends on the length of key's list alone; and an emit
\* or emitAsync of a key invokes handlers of that key's list only
C33_KeysAreIsolated ==
  /\ [][\A key \in Keys, handler \in Values :
          (/\ result'.key = key /\ result'.handler = handler
           /\ on(E, key, handler) \/ off(E, key, handler)) =>
            \A k \in Keys \ {key} :
              /\ has(handlers'[E], k) <=> has(handlers[E], k)
              /\ HandlerListAfter(E, k) = HandlerList(E, k)]_vars
  /\ [][\A key \in Keys, handler \in Functions :
          (/\ result'.key = key /\ result'.handler = handler
           /\ handler \notin Range(HandlerList(E, key))
           /\ on(E, key, handler)) =>
            result'.outcome =
              IF Len(HandlerList(E, key)) >= MaxHandlers(E) THEN "RangeError" ELSE "ok"]_vars
  /\ [](/\ \A s \in Slots :
             emissions[s].st # "idle" =>
               IsPrefix(Invoked(emissions[s].calls), HandlerList(E, emissions[s].key))
        /\ \A key \in Keys :
             Emitted(key) => IsPrefix(Invoked(result.calls), HandlerList(E, key)))

\* key a has reached the limit of one handler, on(b, h2) has succeeded all the same,
\* and an emit of a has invoked h1 and not h2
C33_Witness ==
  /\ options[E] = <<1>> /\ initial[E] = EmptyMap
  /\ HandlerList(E, "a") = <<"h1">> /\ HandlerList(E, "b") = <<"h2">>
  /\ Done("emit", "a") /\ result.outcome = "returned"
  /\ Invoked(result.calls) = <<"h1">>

\* C34: with on and off called between emissions only, no step of an emit or an
\* emitAsync (its call, the end of a handler, the settling of a promise, its
\* continuation, its end) changes the registry or the list of a key; the handlers an
\* emission has invoked, the failing ones among them, are still in the list when it
\* has ended; and an emit or emitAsync called right after an emission of the same
\* key dispatches to the list that emission had, all of which it had invoked unless
\* a failure cut it short
C34_EmissionsLeaveRegistry ==
  /\ [][result'.op \in {"emit", "emitAsync"} =>
          /\ handlers' = handlers
          /\ \A key \in Keys : HandlerListAfter(E, key) = HandlerList(E, key)]_vars
  /\ [](\A key \in Keys :
          Emitted(key) =>
            /\ IsPrefix(Invoked(result.calls), HandlerList(E, key))
            /\ ~CutShort => Invoked(result.calls) = HandlerList(E, key))
  /\ [][\A s \in Slots, key \in Keys :
          (/\ Emitted(key) /\ result'.op \in {"emit", "emitAsync"} /\ result'.key = key
           /\ \/ emit(s, E, key, Carrier, Payload)
              \/ \E opts \in EmitModes : emitAsync(s, E, key, Carrier, Payload, opts))
          => /\ emissions'[s].st # "idle" =>
                  /\ IsPrefix(Invoked(result.calls), emissions'[s].list)
                  /\ ~CutShort => emissions'[s].list = Invoked(result.calls)
             /\ emissions'[s].st = "idle" => result.calls = <<>>]_vars

\* an emit over h1, h2, h3 was cut short by h2, which threw: h2 and h3 are still
\* subscribed and the list is what it was
C34_Witness ==
  /\ initial[E] = EmptyMap
  /\ Done("emit", "a") /\ result.outcome = "threw" /\ thrown[1] = {2}
  /\ Invoked(result.calls) = <<"h1", "h2">>
  /\ HandlerList(E, "a") = <<"h1", "h2", "h3">>

\* C35: of two emitAsync calls of one key that overlap, each invokes the handlers of
\* the list in order, each handler once and with the call's own context; a step of
\* one call leaves the record of the other as it is; and when a call ends, it
\* resolves if none of the invocations it made itself failed and rejects if one
\* did, with the errors of its own failing invocations: in concurrent mode after all
\* of its handlers were invoked and their promises settled, in sequencial mode at
\* its first failing handler
C35_OverlappingCallsAreIndependent ==
  /\ [](\A s \in Slots :
          LET em == emissions[s]
          IN em.st # "idle" =>
               /\ em.list = HandlerList(E, em.key)
               /\ Len(em.calls) <= Len(em.list)
               /\ \A i \in 1..Len(em.calls) :
                    em.calls[i] = Call(em.list[i], ContextOf(s), Payload))
  /\ [][\A s \in Slots :
          LET em == emissions[s]
              failing == Failing(result'.promises)
          IN /\ emissions'[s] # em => \A t \in Slots \ {s} : emissions'[t] = emissions[t]
             /\ (em.st # "idle" /\ emissions'[s].st = "idle") =>
                  /\ result'.calls = em.calls /\ result'.mode = em.mode
                  /\ IsPrefix(em.promises, result'.promises)
                  /\ Len(result'.promises) = Len(em.calls)
                  /\ result'.outcome = IF failing = {} THEN "resolved" ELSE "rejected"
                  /\ failing = {} => result'.error = NoError
                  /\ em.mode = "concurrent" =>
                       /\ Invoked(em.calls) = em.list
                       /\ \A i \in 1..Len(result'.promises) :
                            result'.promises[i] \in {"fulfilled", "rejected"}
                       /\ failing # {} =>
                            result'.error =
                              AggregateError(AtPositions(em.list, failing),
                                             Message(Cardinality(failing), em.key))
                  /\ em.mode = "sequencial" =>
                       /\ failing = {} => Invoked(em.calls) = em.list
                       /\ failing # {} =>
                            /\ failing = {Len(em.calls)}
                            /\ result'.error = HandlerError(em.list[Len(em.calls)])]_vars

\* the call made with context c1 has rejected, its second handler having failed,
\* while the call made with context c2, in flight since before, has had both of its
\* invocations fulfilled
C35_Witness ==
  /\ Done("emitAsync", "a") /\ result.outcome = "rejected" /\ result.mode = "concurrent"
  /\ result.calls = <<Call("h1", ContextOf(1), Payload), Call("h2", ContextOf(1), Payload)>>
  /\ result.failed = <<2>>
  /\ emissions[2].st = "awaiting" /\ emissions[2].mode = "concurrent"
  /\ emissions[2].calls = <<Call("h1", ContextOf(2), Payload), Call("h2", ContextOf(2), Payload)>>
  /\ emissions[2].promises = <<"fulfilled", "fulfilled">>

====
